---- MODULE Spec2Model ----
(***************************************************************************)
(* Model of ciruela's daemon-side tracking of one image:                   *)
(*   - the Image Lifecycle Driver   (src/daemon/tracking/fetch_dir.rs)     *)
(*   - the Block Fetch Engine       (src/daemon/tracking/fetch_blocks.rs)  *)
(* One Downloading (P, I) is tracked.  The event loop is single-threaded   *)
(* and cooperative, so every callback and every FetchBlocks::poll is one   *)
(* atomic action; peers, the disk pool and the timers are the environment. *)
(***************************************************************************)
EXTENDS Integers, Sequences, FiniteSets, TLC

(***************************************************************************)
(* Program constants (fetch_blocks.rs:21-24), in milliseconds.             *)
(***************************************************************************)
FETCH_DEADLINE == 3600000
RETRY_CLUSTER_FAILURE == 120000
RETRY_INTERVAL == 2000
CONCURRENCY == 10

(***************************************************************************)
(* Bounds of the model.                                                    *)
(***************************************************************************)
\* blocks of the image tracked under Spec
MaxBlocks == 3
\* blocks of the image tracked under SpecTime
TimeBlocks == 2
\* blocks of the image tracked under SpecLoad (more than CONCURRENCY + 1)
LoadBlocks == 12
\* slices the blocks are partitioned into (the program has 256)
NumSlices == 2
\* peer addresses
NumPeers == 2
\* number of distinct block hashes; response data ranges over 0..MaxData
HashMod == 2
MaxData == 2
\* how many requests may end in an error or a wrong answer
MaxFaults == 1
\* how many times start() may be called for (P, I)
MaxStarts == 2
\* upload client: cluster entry-points, addresses they resolve to (address a
\* belongs to entry-point ((a - 1) % NumClusters) + 1), machine ids
NumClusters == 2
NumAddrs == 3
NumMachines == 2

Peers == 1..NumPeers
Data == 0..MaxData
\* Option<Timeout>: << >> is None, << t >> is Some(timer firing at t)
NoTimeout == << >>

\* The instants at which the engine may be polled, relative to the start of
\* the driver: around each of the engine's three durations (AllInstants), or
\* only at the retry interval and at the deadline (Instants).
Instants == { 0, RETRY_INTERVAL, FETCH_DEADLINE }
AllInstants ==
    { 0, RETRY_INTERVAL,
      RETRY_CLUSTER_FAILURE, RETRY_CLUSTER_FAILURE + RETRY_INTERVAL,
      FETCH_DEADLINE - 1, FETCH_DEADLINE, FETCH_DEADLINE + RETRY_INTERVAL }

VARIABLES
    pc,             \* position of the driver's future chain (fetch_dir.rs)
    calls,          \* the stage calls the driver made, in order
    in_progress,    \* sys.state().in_progress: the tracked Downloadings
    meta,           \* calls to meta.dir_committed / meta.dir_aborted
    remote,         \* notifications sent through sys.remote
    progress,       \* masks broadcast with sys.peers.notify_progress
    staging,        \* the staging directory of the disk subsystem
    disk,           \* << block, data >> durably written into the staging dir
    nblocks,        \* number of blocks the index of the image lists
    slices,         \* Downloading.slices
    mask,           \* Downloading.mask: set of slice indexes
    futures,        \* FetchBlocks.futures
    retry_timeout,  \* FetchBlocks.retry_timeout: NoTimeout or << instant >>
    last_okay,      \* FetchBlocks.last_okay
    deadline,       \* FetchBlocks.deadline: the firing instant
    engine,         \* what the FetchBlocks future last returned
    last_poll,      \* what the last FetchBlocks::poll did
    requested,      \* blocks a GetBlock was ever issued for
    faults,         \* errors and wrong answers injected so far
    now,            \* Instant::now() as the program last read it
    conns,          \* connected peers that published the image
    spawned,        \* index fetches spawned by start() for (P, I)
    \* the upload client (client/upload/mod.rs)
    cluster_pc,     \* per entry-point: position of its resolve future
    addr_pc,        \* per address: position of its future chain, or its value
    cli,            \* per address: the client connection carrying the Tracker
    hosts_done,     \* Progress.hosts_done (machine ids)
    ips_needed,     \* Progress.ips_needed
    ids_needed,     \* Progress.ids_needed (machine ids)
    hosts_errored,  \* Progress.hosts_errored
    done,           \* Progress.done is Some(sender)
    sent,           \* number of chan.send(()) calls on the completion signal
    got,            \* per address: how its placement request ended
    seen,           \* per address: hosts_errored as it was when the address
                    \* observed the completion signal
    confirmed,      \* entry-points a ReceivedImage was delivered for
    last_cb         \* the Tracker callback run last, if it was the last step

vars == << pc, calls, in_progress, meta, remote, progress, staging, disk,
           nblocks, slices, mask, futures, retry_timeout, last_okay, deadline,
           engine, last_poll, requested, faults, now, conns, spawned,
           cluster_pc, addr_pc, cli, hosts_done, ips_needed, ids_needed,
           hosts_errored, done, sent, got, seen, confirmed, last_cb >>

driver_vars == << pc, calls, in_progress, meta, remote, staging, spawned >>
engine_vars == << slices, mask, futures, retry_timeout, last_okay, deadline,
                  engine, last_poll, requested, progress >>
daemon_vars == << driver_vars, engine_vars, disk, nblocks, faults, now,
                  conns >>
upload_vars == << cluster_pc, addr_pc, cli, hosts_done, ips_needed,
                  ids_needed, hosts_errored, done, sent, got, seen, confirmed,
                  last_cb >>

(***************************************************************************)
(* The image: blocks 1..nblocks; a block's pointer (path, offset) is its   *)
(* number.                                                                 *)
(***************************************************************************)
\* BlockHash::hash_bytes: many byte strings, fewer hashes
hash_bytes(d) == d % HashMod

\* the bytes of block b in the published image, and the hash the index lists
Content(b) == b % HashMod
BlockHashOf(b) == hash_bytes(Content(b))

\* the slice a block belongs to: low bits of the block ordinal
SliceOf(b) == b % NumSlices

Blocks == 1..nblocks

\* the element of a one-element set; Only({ B : x \in {X} }) is B with x
\* bound to the value of X, as LET x == X IN B, with X worked out once
Only(S) == CHOOSE x \in S : TRUE

RECURSIVE SeqSum(_)
SeqSum(s) == IF s = << >> THEN 0 ELSE Head(s) + SeqSum(Tail(s))

SelectBlocks(n, i) ==
    LET F[k \in 0..n] ==
            IF k = 0 THEN << >>
            ELSE IF SliceOf(k) = i THEN Append(F[k - 1], k) ELSE F[k - 1]
    IN F[n]

(***************************************************************************)
(* Collaborators of the engine that live outside the files modelled here.  *)
(***************************************************************************)
\* PeerFailures::add_failure: remember the peer as failed for this slice
add_failure(failures, addr) == failures \cup {addr}

\* Tracking::get_connection_by_mask: a connected peer that advertises the
\* image and is not in the slice's failures; pref is the registry's
\* preference among the candidates.  {} stands for no connection.
get_connection_by_mask(failures, pref) ==
    LET cand == { p \in conns : p \notin failures }
    IN IF cand = {} THEN {}
       ELSE IF pref \in cand THEN {pref}
       ELSE {CHOOSE p \in cand : \A q \in cand : p <= q}

\* Peers::check_stalled: every peer that could have been a source is gone
check_stalled == conns = {}

\* Downloading::report_slice: set the slice's bit in the mask
report_slice(m, i) == m \cup {i}

\* Downloading::fill_blocks: one SliceState per slice of the index that has
\* blocks, each holding its blocks in index order
fill_blocks(n) ==
    LET F[i \in 0..NumSlices] ==
            IF i = 0 THEN << >>
            ELSE IF SelectBlocks(n, i - 1) = << >> THEN F[i - 1]
            ELSE Append(F[i - 1],
                        [index |-> i - 1, blocks |-> SelectBlocks(n, i - 1),
                         in_progress |-> 0, failures |-> {}])
    IN F[NumSlices]

(***************************************************************************)
(* Timers (tokio Timeout): ready once the clock reached the instant.       *)
(***************************************************************************)
timeout(t, ms) == t + ms
TimerReady(t, timer) == t >= timer

(***************************************************************************)
(* FetchBlocks::new (fetch_blocks.rs:45-58)                                *)
(***************************************************************************)
\* What a poll did, recorded for the properties: what it returned, whether
\* it returned at the retry gate, polled an item, polled the deadline, asked
\* the registry, issued a request, issued one in a pass that began with
\* CONCURRENCY or more items, called notify_stalled, called check_stalled,
\* ended in a pass that went through the done, deadline and backpressure
\* checks and scheduled nothing (idle).
NoPoll ==
    [result |-> "none", gated |-> FALSE, polled |-> FALSE,
     deadline |-> FALSE, registry |-> FALSE, issued |-> FALSE,
     beyond |-> FALSE, stalled |-> FALSE, checked |-> FALSE,
     idle |-> FALSE]

(***************************************************************************)
(* FetchBlock::poll (fetch_blocks.rs:65-141).  e is the FetchBlocks the    *)
(* item is polled against; the result is the new e, what poll returned     *)
(* (out) and the item handed back with NotReady.                           *)
(***************************************************************************)
\* a verified block that leaves the counter alone
DecInProgressNone(sl, idx) == sl

\* lines 78-82: every slice with that index
DecInProgress(sl, idx) ==
    [k \in 1..Len(sl) |->
        IF sl[k].index = idx
        THEN [sl[k] EXCEPT !.in_progress = @ - 1]
        ELSE sl[k]]

\* a failure registered with every slice
GiveBackEverySlice(sl, idx, blk, addr) ==
    [k \in 1..Len(sl) |->
        IF sl[k].index = idx
        THEN [sl[k] EXCEPT !.in_progress = @ - 1,
                           !.blocks = Append(@, blk),
                           !.failures = add_failure(@, addr)]
        ELSE [sl[k] EXCEPT !.failures = add_failure(@, addr)]]

\* lines 95-102 and 107-114: the first slice with that index (break)
GiveBack(sl, idx, blk, addr) ==
    LET hit == { k \in 1..Len(sl) : sl[k].index = idx }
    IN [k \in 1..Len(sl) |->
        IF k \in hit /\ \A j \in hit : k <= j
        THEN [sl[k] EXCEPT !.in_progress = @ - 1,
                           !.blocks = Append(@, blk),
                           !.failures = add_failure(@, addr)]
        ELSE sl[k]]

\* no verification
VerifiedAlways(data, blk) == TRUE

\* line 77
Verified(data, blk) == hash_bytes(data) = BlockHashOf(blk)

\* lines 86-90: disk.write_block(image, path, offset, data)
write_block(blk, data) ==
    [kind |-> "Writing", blk |-> blk, data |-> data, f |-> "NotReady"]

\* lines 70-119
PollFetching(it, e) ==
    IF it.f.st = "NotReady"
    THEN [e |-> e, out |-> "NotReady", item |-> it]
    ELSE IF it.f.st = "Ready"
    THEN IF Verified(it.f.data, it.blk)
         THEN \* the Writing item is polled in the same call (loop, line 68);
              \* the pool has not run the write yet
              [e |-> [e EXCEPT !.slices = DecInProgress(@, it.slice),
                               !.last_okay = e.now],
               out |-> "NotReady",
               item |-> write_block(it.blk, it.f.data)]
         ELSE [e |-> [e EXCEPT !.slices =
                                  GiveBack(@, it.slice, it.blk, it.addr)],
               out |-> "Err", item |-> it]
    ELSE [e |-> [e EXCEPT !.slices = GiveBack(@, it.slice, it.blk, it.addr)],
          out |-> "Err", item |-> it]

\* lines 120-138
PollWriting(it, e) ==
    IF it.f = "Ready" THEN [e |-> e, out |-> "Ready", item |-> it]
    ELSE IF it.f = "NotReady" THEN [e |-> e, out |-> "NotReady", item |-> it]
    ELSE [e |-> e, out |-> "exit", item |-> it]

FetchBlock_poll(it, e) ==
    IF it.kind = "Fetching" THEN PollFetching(it, e) ELSE PollWriting(it, e)

(***************************************************************************)
(* FetchBlocks::poll (fetch_blocks.rs:148-262)                             *)
(***************************************************************************)
\* lines 161-170: pop each item once, push back the ones not ready
RECURSIVE PollItems(_, _)
PollItems(e, n) ==
    IF n = 0 \/ e.exited THEN e
    ELSE Only({ IF r.out = "NotReady"
                 THEN PollItems([r.e EXCEPT !.futures = Append(@, r.item)],
                                n - 1)
                 ELSE IF r.out = "exit"
                 THEN [r.e EXCEPT !.exited = TRUE]
                 ELSE PollItems(r.e, n - 1) :
               r \in { FetchBlock_poll(Head(e.futures),
                                       [e EXCEPT !.futures = Tail(@),
                                                 !.lp.polled = TRUE]) } })

\* a retain that drops nothing
KeepAlways(s) == TRUE

\* line 172
Keep(s) == s.in_progress > 0 \/ Len(s.blocks) > 0

\* retain that reports a finished slice and keeps it
RECURSIVE RetainKeeping(_, _)
RetainKeeping(e, k) ==
    IF k > Len(e.slices) THEN e
    ELSE IF Keep(e.slices[k]) THEN RetainKeeping(e, k + 1)
    ELSE Only({ RetainKeeping([e EXCEPT !.mask = m,
                                        !.progress = Append(@, m)], k + 1) :
               m \in { report_slice(e.mask, e.slices[k].index) } })

\* lines 171-182: retain, reporting every slice that is dropped
RECURSIVE Retain(_, _)
Retain(e, k) ==
    IF k > Len(e.slices) THEN e
    ELSE IF Keep(e.slices[k]) THEN Retain(e, k + 1)
    ELSE Only({ Retain([e EXCEPT
                   !.mask = m,
                   !.progress = Append(@, m),
                   !.slices = SubSeq(@, 1, k - 1) \o SubSeq(@, k + 1, Len(@))],
                 k) :
               m \in { report_slice(e.mask, e.slices[k].index) } })

\* lines 205-216: conn.request(GetBlock {..}), a new Fetching item
Request(e, k, blk, addr) ==
    [e EXCEPT !.futures = Append(@, [kind |-> "Fetching", blk |-> blk,
                                     slice |-> e.slices[k].index,
                                     addr |-> addr,
                                     f |-> [st |-> "NotReady"]]),
              !.slices[k].in_progress = @ + 1,
              !.new = @ + 1,
              !.requested = @ \cup {blk},
              !.lp.issued = TRUE,
              !.lp.beyond = @ \/ e.from >= CONCURRENCY]

\* lines 197-224: the while-let loop over one slice
RECURSIVE ScheduleSlice(_, _, _)
ScheduleSlice(e, k, pref) ==
    IF e.slices[k].blocks = << >> THEN e
    ELSE LET blk  == Head(e.slices[k].blocks)
             e1   == [e EXCEPT !.slices[k].blocks = Tail(@),
                               !.lp.registry = TRUE]
             conn == get_connection_by_mask(e.slices[k].failures, pref)
         IN IF conn # {}
            THEN Only({ IF Len(e2.futures) > CONCURRENCY
                        THEN [e2 EXCEPT !.over = TRUE]
                        ELSE ScheduleSlice(e2, k, pref) :
                   e2 \in { Request(e1, k, blk, CHOOSE p \in conn : TRUE) } })
            ELSE [e1 EXCEPT !.slices[k].blocks = Append(@, blk)]

\* line 196: the for loop over the slices
RECURSIVE ScheduleFrom(_, _, _)
ScheduleFrom(e, k, pref) ==
    IF k > Len(e.slices) THEN e
    ELSE Only({ IF e1.over THEN e1 ELSE ScheduleFrom(e1, k + 1, pref) :
               e1 \in { ScheduleSlice(e, k, pref) } })

\* backpressure one item late
BackpressureLate(e) == Len(e.futures) > CONCURRENCY

\* line 192
Backpressure(e) == Len(e.futures) >= CONCURRENCY

\* done as soon as the slices are gone
AllDoneSlicesOnly(e) == Len(e.slices) = 0

\* lines 183-186
AllDone(e) == Len(e.futures) = 0 /\ Len(e.slices) = 0

\* a deadline honoured only when nothing is in flight
DeadlineReachedIdle(e) ==
    TimerReady(e.now, deadline) /\ Len(e.futures) = 0

\* lines 187-188
DeadlineReached(e) == TimerReady(e.now, deadline)

\* a stall looked into at any time
ClusterRetryPassedAlways(e) == TRUE

\* line 237
ClusterRetryPassed(e) == e.last_okay + RETRY_CLUSTER_FAILURE < e.now

Return(e, res) == [e EXCEPT !.lp.result = res]

RECURSIVE Loop(_, _)

\* a pass that returns without a timer
RetryUnarmed(e, pref) == Return(e, "NotReady")

\* lines 253-258: a new timer is polled at once and kept if it is not ready
Retry(e, pref) ==
    LET t == timeout(e.now, RETRY_INTERVAL)
    IN IF TimerReady(e.now, t) THEN Loop(e, pref)
       ELSE Return([e EXCEPT !.retry_timeout = << t >>], "NotReady")

\* a stall branch taken whatever is in flight
NothingInFlightAlways(e) == TRUE

\* line 230
NothingInFlight(e) == Len(e.futures) = 0

\* lines 230-252 and 260
Stalled(e, pref) ==
    LET e0 == [e EXCEPT !.lp.idle = TRUE]
    IN IF NothingInFlight(e0)
       THEN LET e1 == [e0 EXCEPT !.lp.stalled = TRUE]
            IN IF ClusterRetryPassed(e1)
               THEN LET e2 == [e1 EXCEPT !.lp.checked = TRUE]
                    IN IF check_stalled THEN Return(e2, "Err")
                       ELSE Retry(e2, pref)
               ELSE Retry(e1, pref)
       ELSE Return(e0, "NotReady")

\* lines 160-261: the 'outer loop
Loop(e, pref) ==
    Only({ Only({
        IF e1.exited THEN Return(e1, "exit")
        ELSE IF AllDone(e2) THEN Return(e2, "Ready")
        ELSE IF DeadlineReached(e2)
        THEN Return([e2 EXCEPT !.lp.deadline = TRUE], "Err")
        ELSE IF Backpressure(e2)
        THEN Return([e2 EXCEPT !.lp.deadline = TRUE], "NotReady")
        ELSE Only({ LET e4 == [e3 EXCEPT !.lp.deadline = TRUE]
                    IN IF e3.over \/ e3.new > 0 THEN Loop(e4, pref)
                       ELSE Stalled(e4, pref) :
                e3 \in { ScheduleFrom([e2 EXCEPT !.new = 0, !.over = FALSE,
                                                 !.from = Len(e2.futures)],
                                      1, pref) } }) :
           e2 \in { Retain(e1, 1) } }) :
       e1 \in { PollItems(e, Len(e.futures)) } })

\* a poll that does not look at the retry timer
FetchBlocks_pollUngated(e, pref) ==
    Loop([e EXCEPT !.retry_timeout = NoTimeout], pref)

\* lines 151-159, then the loop
FetchBlocks_poll(e, pref) ==
    IF e.retry_timeout # NoTimeout /\ ~TimerReady(e.now, e.retry_timeout[1])
    THEN Return([e EXCEPT !.lp.gated = TRUE], "NotReady")
    ELSE Loop([e EXCEPT !.retry_timeout = NoTimeout], pref)

\* the FetchBlocks as a poll at instant t finds it
Engine(t) ==
    [futures |-> futures, slices |-> slices, mask |-> mask,
     retry_timeout |-> retry_timeout, last_okay |-> last_okay,
     progress |-> progress, requested |-> requested, now |-> t,
     lp |-> NoPoll, exited |-> FALSE, new |-> 0, over |-> FALSE, from |-> 0]

(***************************************************************************)
(* The driver (fetch_dir.rs).  Each action is one callback of the future   *)
(* chain, run with the result res of the stage it waited for.              *)
(***************************************************************************)
TheDownloading == "P/I"

dir_aborted == Append(meta, "dir_aborted")
dir_committed == Append(meta, "dir_committed")
notify_aborted_image(reason) ==
    Append(remote, [type |-> "AbortedImage", reason |-> reason])
notify_received_image == Append(remote, [type |-> "ReceivedImage"])
notify_progress == Append(progress, mask)

\* an abort that sends the reason of another stage
AbortNoSource(reason) ==
    /\ meta' = dir_aborted
    /\ remote' = notify_aborted_image("cluster_abort_no_file_source")
    /\ pc' = "aborted"

\* an abort that notifies nobody
AbortSilent(reason) ==
    /\ meta' = dir_aborted
    /\ remote' = remote
    /\ pc' = "aborted"

\* the abort of a stage: lines 26-29, 58-61, 82-85, 99-102, 109-112
Abort(reason) ==
    /\ meta' = dir_aborted
    /\ remote' = notify_aborted_image(reason)
    /\ pc' = "aborted"

\* lines 11-21
start ==
    /\ pc = "new"
    /\ in_progress' = in_progress \cup {TheDownloading}
    /\ progress' = notify_progress
    /\ calls' = Append(calls, "images.get")
    /\ spawned' = spawned + 1
    /\ pc' = "index"
    /\ UNCHANGED << meta, remote, staging, disk, nblocks, slices, mask,
                    futures, retry_timeout, last_okay, deadline, engine,
                    last_poll, requested, faults, now, conns >>
    /\ UNCHANGED upload_vars

\* lines 22-37: the index fetch resolved
index_done(res) ==
    /\ pc = "index"
    /\ IF res = "ok"
       THEN /\ calls' = Append(calls, "start_image")
            /\ pc' = "staging"
            /\ UNCHANGED << meta, remote >>
       ELSE /\ Abort("cant_fetch_index")
            /\ UNCHANGED calls
    /\ UNCHANGED << in_progress, progress, staging, disk, nblocks, slices,
                    mask, futures, retry_timeout, last_okay, deadline, engine,
                    last_poll, requested, faults, now, conns >>
    /\ UNCHANGED << spawned, upload_vars >>

\* AlreadyExists handled by the arm of the other errors
AlreadyExistsAborts ==
    /\ meta' = dir_aborted
    /\ remote' = notify_aborted_image("cant_create_directory")
    /\ pc' = "exists"

\* lines 49-54: Err(disk::Error::AlreadyExists)
AlreadyExists ==
    /\ meta' = dir_committed
    /\ remote' = notify_received_image
    /\ pc' = "exists"

\* lines 38-64 and 70-73: start_image resolved
start_image_done(res) ==
    /\ pc = "staging"
    /\ IF res = "ok"
       THEN /\ staging' = "temporary"
            /\ progress' = notify_progress
            /\ calls' = Append(calls, "files_to_hardlink")
            /\ pc' = "hardlink"
            /\ UNCHANGED << meta, remote >>
       ELSE IF res = "AlreadyExists"
       THEN /\ AlreadyExists
            /\ UNCHANGED << staging, progress, calls >>
       ELSE /\ Abort("cant_create_directory")
            /\ UNCHANGED << staging, progress, calls >>
    /\ UNCHANGED << in_progress, disk, nblocks, slices, mask, futures,
                    retry_timeout, last_okay, deadline, engine, last_poll,
                    requested, faults, now, conns >>
    /\ UNCHANGED << spawned, upload_vars >>

\* lines 74-86 and 89-96: files_to_hardlink resolved
hardlink_done(res) ==
    /\ pc = "hardlink"
    /\ IF res = "ok"
       THEN /\ slices' = fill_blocks(nblocks)
            /\ calls' = Append(Append(calls, "fill_blocks"), "FetchBlocks")
            /\ futures' = << >>
            /\ retry_timeout' = NoTimeout
            /\ last_okay' = now
            /\ deadline' = timeout(now, FETCH_DEADLINE)
            /\ engine' = "running"
            /\ pc' = "engine"
            /\ UNCHANGED << meta, remote >>
       ELSE /\ Abort("internal_error_when_hardlinking")
            /\ UNCHANGED << slices, calls, futures, retry_timeout, last_okay,
                            deadline, engine >>
    /\ UNCHANGED << in_progress, progress, staging, disk, nblocks, mask,
                    last_poll, requested, faults, now, conns >>
    /\ UNCHANGED << spawned, upload_vars >>

\* lines 96-105: the engine is polled at instant t; on Ready the chain
\* calls commit_image, on Err it aborts
poll(pref, t) ==
    /\ pc = "engine"
    /\ t >= now
    /\ now' = t
    /\ \E e \in { FetchBlocks_poll(Engine(t), pref) } :
          /\ futures' = e.futures
          /\ slices' = e.slices
          /\ mask' = e.mask
          /\ retry_timeout' = e.retry_timeout
          /\ last_okay' = e.last_okay
          /\ progress' = e.progress
          /\ requested' = e.requested
          /\ last_poll' = e.lp
          /\ IF e.lp.result = "Ready"
             THEN /\ engine' = "done"
                  /\ calls' = Append(calls, "commit_image")
                  /\ pc' = "commit"
                  /\ UNCHANGED << meta, remote >>
             ELSE IF e.lp.result = "Err"
             THEN /\ engine' = "failed"
                  /\ Abort("cluster_abort_no_file_source")
                  /\ UNCHANGED calls
             ELSE IF e.lp.result = "exit"
             THEN /\ engine' = "exited"
                  /\ pc' = "exited"
                  /\ UNCHANGED << calls, meta, remote >>
             ELSE UNCHANGED << engine, pc, calls, meta, remote >>
    /\ UNCHANGED << in_progress, staging, disk, nblocks, deadline, faults,
                    conns >>
    /\ UNCHANGED << spawned, upload_vars >>

\* lines 105-118: commit_image resolved
commit_done(res) ==
    /\ pc = "commit"
    /\ IF res = "ok"
       THEN /\ staging' = "committed"
            /\ meta' = dir_committed
            /\ remote' = notify_received_image
            /\ pc' = "committed"
       ELSE /\ Abort("commit_error")
            /\ UNCHANGED staging
    /\ UNCHANGED << calls, in_progress, progress, disk, nblocks, slices,
                    mask, futures, retry_timeout, last_okay, deadline, engine,
                    last_poll, requested, faults, now, conns >>
    /\ UNCHANGED << spawned, upload_vars >>

(***************************************************************************)
(* The environment of the engine: peers answering GetBlock, the disk pool  *)
(* completing writes, connections coming and going.  None of them reads    *)
(* the clock: time shows only in the instant at which the engine is polled.*)
(***************************************************************************)
Pending(i) ==
    /\ i \in 1..Len(futures)
    /\ futures[i].kind = "Fetching"
    /\ futures[i].f.st = "NotReady"

Writing(i) ==
    /\ i \in 1..Len(futures)
    /\ futures[i].kind = "Writing"
    /\ futures[i].f = "NotReady"

\* a GetBlockResponse arrives
response(i, d) ==
    /\ pc = "engine"
    /\ Pending(i)
    /\ futures[i].addr \in conns
    /\ IF Verified(d, futures[i].blk)
       THEN UNCHANGED faults
       ELSE faults < MaxFaults /\ faults' = faults + 1
    /\ futures' = [futures EXCEPT ![i].f = [st |-> "Ready", data |-> d]]
    /\ UNCHANGED << driver_vars, progress, disk, nblocks, slices, mask,
                    retry_timeout, last_okay, deadline, engine, last_poll,
                    requested, now, conns >>
    /\ UNCHANGED upload_vars

\* a request fails (transport error, timeout)
request_error(i) ==
    /\ pc = "engine"
    /\ Pending(i)
    /\ faults < MaxFaults
    /\ faults' = faults + 1
    /\ futures' = [futures EXCEPT ![i].f = [st |-> "Err"]]
    /\ UNCHANGED << driver_vars, progress, disk, nblocks, slices, mask,
                    retry_timeout, last_okay, deadline, engine, last_poll,
                    requested, now, conns >>
    /\ UNCHANGED upload_vars

\* a peer's connection closes: its requests in flight fail
disconnect(p) ==
    /\ pc = "engine"
    /\ p \in conns
    /\ conns' = conns \ {p}
    /\ futures' = [i \in 1..Len(futures) |->
                     IF Pending(i) /\ futures[i].addr = p
                     THEN [futures[i] EXCEPT !.f = [st |-> "Err"]]
                     ELSE futures[i]]
    /\ UNCHANGED << driver_vars, progress, disk, nblocks, slices, mask,
                    retry_timeout, last_okay, deadline, engine, last_poll,
                    requested, faults, now >>
    /\ UNCHANGED upload_vars

\* a peer connects and publishes the image (websocket.rs:130-131)
publish_index(p) ==
    /\ pc = "engine"
    /\ p \in Peers \ conns
    /\ conns' = conns \cup {p}
    /\ UNCHANGED << driver_vars, engine_vars, disk, nblocks, faults, now >>
    /\ UNCHANGED upload_vars

\* the disk pool finished a write_block
write_done(i) ==
    /\ pc = "engine"
    /\ Writing(i)
    /\ futures' = [futures EXCEPT ![i].f = "Ready"]
    /\ disk' = { w \in disk : w[1] # futures[i].blk }
                 \cup { << futures[i].blk, futures[i].data >> }
    /\ UNCHANGED << driver_vars, progress, nblocks, slices, mask,
                    retry_timeout, last_okay, deadline, engine, last_poll,
                    requested, faults, now, conns >>
    /\ UNCHANGED upload_vars

\* the disk pool failed a write_block
write_failed(i) ==
    /\ pc = "engine"
    /\ Writing(i)
    /\ futures' = [futures EXCEPT ![i].f = "Err"]
    /\ UNCHANGED << driver_vars, progress, disk, nblocks, slices, mask,
                    retry_timeout, last_okay, deadline, engine, last_poll,
                    requested, faults, now, conns >>
    /\ UNCHANGED upload_vars

(***************************************************************************)
(* A second placement command for the same (P, I) (fetch_dir.rs:11-21).    *)
(* start() is called with a new Downloading, equal to the tracked one as a *)
(* member of the in-progress set but with its own, empty, mask.  Only the  *)
(* call itself is modelled: the stages of the chain it spawns are not.     *)
(***************************************************************************)
start_again ==
    /\ pc # "new"
    /\ TheDownloading \in in_progress
    /\ spawned < MaxStarts
    /\ in_progress' = in_progress \cup {TheDownloading}
    /\ progress' = Append(progress, {})
    /\ spawned' = spawned + 1
    /\ UNCHANGED << pc, calls, meta, remote, staging, disk, nblocks, slices,
                    mask, futures, retry_timeout, last_okay, deadline, engine,
                    last_poll, requested, faults, now, conns >>
    /\ UNCHANGED upload_vars

(***************************************************************************)
(* The upload client (client/upload/mod.rs).  do_upload resolves every     *)
(* cluster entry-point, contacts every address it resolves to, and joins   *)
(* the per-address results; all addresses share one Progress and one       *)
(* completion signal.  The event loop is single-threaded: every callback   *)
(* below is one atomic action.                                             *)
(***************************************************************************)
Clusters == 1..NumClusters
Addrs == 1..NumAddrs
Machines == 1..NumMachines
ClusterOf(a) == ((a - 1) % NumClusters) + 1
AddrsOf(c) == { a \in Addrs : ClusterOf(a) = c }

NoCallback == [kind |-> "none", late |-> FALSE]

\* Progress::add_ids (lines 44-50)
add_ids(hosts) == ids_needed \cup (hosts \ hosts_done)

\* is_ok (lines 101-103)
is_ok == hosts_errored = {}

\* an Option that keeps its sender when taken
TakeKeeps(d) == d

\* Option::take (lines 71, 93): what is left in pro.done
Take(d) == FALSE

\* lines 71-73 and 93-95: pro.done.take().map(|chan| chan.send(()))
Fire ==
    IF done
    THEN /\ done' = Take(done)
         /\ sent' = sent + 1
    ELSE UNCHANGED << done, sent >>

\* a close handled as if completion had never fired
BeforeCompletionAlways == TRUE

\* line 88: pro.done.is_some()
BeforeCompletion == done

\* a cluster that needs every address
cluster_all(c) == \A a \in AddrsOf(c) : addr_pc[a] = "true"

\* line 298: results.iter().any(|x| *x)
cluster_result(c) == \E a \in AddrsOf(c) : addr_pc[a] = "true"

\* lines 180-303 and 324-328: what do_upload returns once the joins are
\* complete: an error as soon as an entry-point fails to resolve, else
\* all(..) over the entry-points when every address future is complete
upload_result ==
    IF \E c \in Clusters : cluster_pc[c] = "failed" THEN "error"
    ELSE IF /\ \A c \in Clusters : cluster_pc[c] = "resolved"
            /\ \A a \in Addrs : addr_pc[a] \in {"true", "false"}
    THEN IF \A c \in Clusters : cluster_result(c) THEN "true" ELSE "false"
    ELSE "none"

\* the event loop runs until do_upload has its result
Running == upload_result = "none"

\* lines 193-217: an entry-point resolved; every address gets its Tracker,
\* is inserted into ips_needed and is connected to
resolved(c) ==
    /\ Running
    /\ cluster_pc[c] = "resolving"
    /\ cluster_pc' = [cluster_pc EXCEPT ![c] = "resolved"]
    /\ ips_needed' = ips_needed \cup AddrsOf(c)
    /\ addr_pc' = [a \in Addrs |->
                     IF a \in AddrsOf(c) THEN "connecting" ELSE addr_pc[a]]
    /\ last_cb' = NoCallback
    /\ UNCHANGED << cli, hosts_done, ids_needed, hosts_errored, done, sent,
                    got, seen, confirmed >>
    /\ UNCHANGED daemon_vars

\* lines 194-196: resolving an entry-point failed
resolve_failed(c) ==
    /\ Running
    /\ cluster_pc[c] = "resolving"
    /\ cluster_pc' = [cluster_pc EXCEPT ![c] = "failed"]
    /\ last_cb' = NoCallback
    /\ UNCHANGED << addr_pc, cli, hosts_done, ips_needed, ids_needed,
                    hosts_errored, done, sent, got, seen, confirmed >>
    /\ UNCHANGED daemon_vars

\* lines 217-260: connected; the index is registered and the placement
\* request (AppendDir or ReplaceDir) is sent
connected(a) ==
    /\ Running
    /\ addr_pc[a] = "connecting"
    /\ addr_pc' = [addr_pc EXCEPT ![a] = "requested"]
    /\ cli' = [cli EXCEPT ![a] = "open"]
    /\ last_cb' = NoCallback
    /\ UNCHANGED << cluster_pc, hosts_done, ips_needed, ids_needed,
                    hosts_errored, done, sent, got, seen, confirmed >>
    /\ UNCHANGED daemon_vars

\* lines 283-293: the error arm of the address chain
AddressFailed(a, how) ==
    /\ ips_needed' = ips_needed \ {a}
    /\ addr_pc' = [addr_pc EXCEPT ![a] = "false"]
    /\ got' = [got EXCEPT ![a] = how]

\* Client::spawn failed
connect_failed(a) ==
    /\ Running
    /\ addr_pc[a] = "connecting"
    /\ AddressFailed(a, "connect_failed")
    /\ last_cb' = NoCallback
    /\ UNCHANGED << cluster_pc, cli, hosts_done, ids_needed, hosts_errored,
                    done, sent, seen, confirmed >>
    /\ UNCHANGED daemon_vars

\* lines 239-240, 258-259: the placement request failed
request_failed(a) ==
    /\ Running
    /\ addr_pc[a] = "requested"
    /\ AddressFailed(a, "request_failed")
    /\ last_cb' = NoCallback
    /\ UNCHANGED << cluster_pc, cli, hosts_done, ids_needed, hosts_errored,
                    done, sent, seen, confirmed >>
    /\ UNCHANGED daemon_vars

\* lines 231-238 and 262-282: the placement request was answered
placement_response(a, accepted, hosts) ==
    /\ Running
    /\ addr_pc[a] = "requested"
    /\ cli[a] = "open"
    /\ ids_needed' = add_ids(hosts)
    /\ IF accepted
       THEN /\ addr_pc' = [addr_pc EXCEPT ![a] = "waiting"]
            /\ got' = [got EXCEPT ![a] = "accepted"]
            /\ UNCHANGED ips_needed
       ELSE /\ ips_needed' = ips_needed \ {a}
            /\ addr_pc' = [addr_pc EXCEPT ![a] = "false"]
            /\ got' = [got EXCEPT ![a] = "rejected"]
    /\ last_cb' = NoCallback
    /\ UNCHANGED << cluster_pc, cli, hosts_done, hosts_errored, done, sent,
                    seen, confirmed >>
    /\ UNCHANGED daemon_vars

\* lines 270-272: an accepted address observes the completion signal
completion(a) ==
    /\ Running
    /\ addr_pc[a] = "waiting"
    /\ sent > 0
    /\ addr_pc' = [addr_pc EXCEPT ![a] = IF is_ok THEN "true" ELSE "false"]
    /\ seen' = [seen EXCEPT ![a] = << hosts_errored >>]
    /\ last_cb' = NoCallback
    /\ UNCHANGED << cluster_pc, cli, hosts_done, ips_needed, ids_needed,
                    hosts_errored, done, sent, got, confirmed >>
    /\ UNCHANGED daemon_vars

\* an address dropped on a forwarded notification too
StillNeededDropping(a, forwarded) == ips_needed \ {a}

\* lines 61-63: if !img.forwarded { pro.ips_needed.remove(&self.0) }
StillNeeded(a, forwarded) ==
    IF forwarded THEN ips_needed ELSE ips_needed \ {a}

\* lines 54-84: Tracker::notification(ReceivedImage) on the connection to a
notification(a, m, forwarded) ==
    /\ Running
    /\ cli[a] = "open"
    /\ hosts_done' = hosts_done \cup {m}
    /\ ips_needed' = StillNeeded(a, forwarded)
    /\ IF ips_needed' = {} THEN Fire ELSE UNCHANGED << done, sent >>
    /\ confirmed' = confirmed \cup {ClusterOf(a)}
    /\ last_cb' = [kind |-> "notification", late |-> ~done]
    /\ UNCHANGED << cluster_pc, addr_pc, cli, ids_needed, hosts_errored,
                    got, seen >>
    /\ UNCHANGED daemon_vars

\* lines 85-98: Tracker::closed on the connection to a
closed(a) ==
    /\ Running
    /\ cli[a] = "open"
    /\ cli' = [cli EXCEPT ![a] = "closed"]
    /\ IF BeforeCompletion
       THEN /\ ips_needed' = ips_needed \ {a}
            /\ hosts_errored' = hosts_errored \cup {a}
            /\ IF ips_needed' = {} THEN Fire ELSE UNCHANGED << done, sent >>
       ELSE UNCHANGED << ips_needed, hosts_errored, done, sent >>
    /\ last_cb' = [kind |-> "closed", late |-> ~done]
    /\ UNCHANGED << cluster_pc, addr_pc, hosts_done, ids_needed, got, seen,
                    confirmed >>
    /\ UNCHANGED daemon_vars

\* lines 166-175: the Progress and the channel as do_upload creates them
InitUpload ==
    /\ cluster_pc = [c \in Clusters |-> "resolving"]
    /\ addr_pc = [a \in Addrs |-> "idle"]
    /\ cli = [a \in Addrs |-> "none"]
    /\ hosts_done = {}
    /\ ips_needed = {}
    /\ ids_needed = {}
    /\ hosts_errored = {}
    /\ done = TRUE
    /\ sent = 0
    /\ got = [a \in Addrs |-> "none"]
    /\ seen = [a \in Addrs |-> << >>]
    /\ confirmed = {}
    /\ last_cb = NoCallback

(***************************************************************************)
(* Specifications.  Spec tracks an image of MaxBlocks blocks from start()  *)
(* on, polled at the coarse Instants.  SpecTime tracks a smaller image     *)
(* polled at AllInstants.                                                  *)
(***************************************************************************)
InitWith(n) ==
    /\ pc = "new"
    /\ calls = << >>
    /\ in_progress = {}
    /\ meta = << >>
    /\ remote = << >>
    /\ progress = << >>
    /\ staging = "none"
    /\ disk = {}
    /\ nblocks = n
    /\ slices = << >>
    /\ mask = {}
    /\ futures = << >>
    /\ retry_timeout = NoTimeout
    /\ last_okay = 0
    /\ deadline = 0
    /\ engine = "none"
    /\ last_poll = NoPoll
    /\ requested = {}
    /\ faults = 0
    /\ now = 0
    /\ conns = {1}
    /\ spawned = 0
    /\ InitUpload

Driver ==
    \/ start
    \/ \E res \in {"ok", "err"} : index_done(res)
    \/ \E res \in {"ok", "AlreadyExists", "err"} : start_image_done(res)
    \/ \E res \in {"ok", "err"} : hardlink_done(res)
    \/ \E res \in {"ok", "err"} : commit_done(res)

Environment ==
    \/ \E i \in 1..Len(futures), d \in Data : response(i, d)
    \/ \E i \in 1..Len(futures) : request_error(i)
    \/ \E p \in Peers : disconnect(p)
    \/ \E p \in Peers : publish_index(p)
    \/ \E i \in 1..Len(futures) : write_done(i)
    \/ \E i \in 1..Len(futures) : write_failed(i)

Init == InitWith(MaxBlocks)

Next ==
    \/ Driver
    \/ Environment
    \/ \E pref \in Peers, t \in Instants : poll(pref, t)

Spec == Init /\ [][Next]_vars

InitTime == InitWith(TimeBlocks)

NextTime ==
    \/ Driver
    \/ Environment
    \/ \E pref \in Peers, t \in AllInstants : poll(pref, t)

SpecTime == InitTime /\ [][NextTime]_vars

(***************************************************************************)
(* SpecLoad: an engine just constructed (FetchBlocks::new) for an image of *)
(* LoadBlocks blocks, more than the engine may have in flight.  Requests   *)
(* and writes resolve oldest first.                                        *)
(***************************************************************************)
InitLoad ==
    /\ pc = "engine"
    /\ calls = << "images.get", "start_image", "files_to_hardlink",
                  "fill_blocks", "FetchBlocks" >>
    /\ in_progress = {TheDownloading}
    /\ meta = << >>
    /\ remote = << >>
    /\ progress = << {}, {} >>
    /\ staging = "temporary"
    /\ disk = {}
    /\ nblocks = LoadBlocks
    /\ slices = fill_blocks(LoadBlocks)
    /\ mask = {}
    /\ futures = << >>
    /\ retry_timeout = NoTimeout
    /\ last_okay = 0
    /\ deadline = timeout(0, FETCH_DEADLINE)
    /\ engine = "running"
    /\ last_poll = NoPoll
    /\ requested = {}
    /\ faults = 0
    /\ now = 0
    /\ conns = Peers
    /\ spawned = 1
    /\ InitUpload

Oldest(i, P(_)) == P(i) /\ \A j \in 1..(i - 1) : ~P(j)

NextLoad ==
    \/ \E pref \in Peers : poll(pref, 0)
    \/ \E i \in 1..Len(futures) :
          Oldest(i, Pending) /\ response(i, Content(futures[i].blk))
    \/ \E i \in 1..Len(futures) : Oldest(i, Pending) /\ request_error(i)
    \/ \E i \in 1..Len(futures) : Oldest(i, Writing) /\ write_done(i)

SpecLoad == InitLoad /\ [][NextLoad]_vars

(***************************************************************************)
(* SpecLive: an engine just constructed for an image of MaxBlocks blocks,  *)
(* with every peer connected for good and a disk that works.  At most      *)
(* MaxFaults requests fail or are answered wrongly, so every slice keeps a *)
(* peer that has not failed it.  The engine is polled before the deadline. *)
(* Fairness: the engine's task is woken and polled (its items and timers   *)
(* notify it), peers answer the requests they hold, the disk pool          *)
(* completes the writes and the commit it was given.                       *)
(***************************************************************************)
InitLive ==
    /\ pc = "engine"
    /\ calls = << "images.get", "start_image", "files_to_hardlink",
                  "fill_blocks", "FetchBlocks" >>
    /\ in_progress = {TheDownloading}
    /\ meta = << >>
    /\ remote = << >>
    /\ progress = << {}, {} >>
    /\ staging = "temporary"
    /\ disk = {}
    /\ nblocks = MaxBlocks
    /\ slices = fill_blocks(MaxBlocks)
    /\ mask = {}
    /\ futures = << >>
    /\ retry_timeout = NoTimeout
    /\ last_okay = 0
    /\ deadline = timeout(0, FETCH_DEADLINE)
    /\ engine = "running"
    /\ last_poll = NoPoll
    /\ requested = {}
    /\ faults = 0
    /\ now = 0
    /\ conns = Peers
    /\ spawned = 1
    /\ InitUpload

LiveInstants == { 0, RETRY_INTERVAL }

PollLive == \E pref \in Peers, t \in LiveInstants : poll(pref, t)
AnswerLive ==
    \E i \in 1..Len(futures) : response(i, Content(futures[i].blk))
WriteLive == \E i \in 1..Len(futures) : write_done(i)

NextLive ==
    \/ PollLive
    \/ \E i \in 1..Len(futures), d \in Data : response(i, d)
    \/ \E i \in 1..Len(futures) : request_error(i)
    \/ WriteLive
    \/ commit_done("ok")

SpecLive ==
    /\ InitLive
    /\ [][NextLive]_vars
    /\ WF_vars(PollLive)
    /\ WF_vars(AnswerLive)
    /\ WF_vars(WriteLive)
    /\ WF_vars(commit_done("ok"))

(***************************************************************************)
(* SpecStart: the driver of an image of TimeBlocks blocks with well-behaved *)
(* peers and disk, and placement commands repeated for the same (P, I).    *)
(***************************************************************************)
NextStart ==
    \/ Driver
    \/ start_again
    \/ \E pref \in Peers : poll(pref, 0)
    \/ \E i \in 1..Len(futures) : response(i, Content(futures[i].blk))
    \/ \E i \in 1..Len(futures) : write_done(i)

SpecStart == InitTime /\ [][NextStart]_vars

(***************************************************************************)
(* SpecUpload: one run of do_upload.                                       *)
(***************************************************************************)
NextUpload ==
    \/ \E c \in Clusters : resolved(c)
    \/ \E c \in Clusters : resolve_failed(c)
    \/ \E a \in Addrs : connected(a)
    \/ \E a \in Addrs : connect_failed(a)
    \/ \E a \in Addrs : request_failed(a)
    \/ \E a \in Addrs, accepted \in BOOLEAN, hosts \in SUBSET Machines :
          placement_response(a, accepted, hosts)
    \/ \E a \in Addrs : completion(a)
    \/ \E a \in Addrs, m \in Machines, forwarded \in BOOLEAN :
          notification(a, m, forwarded)
    \/ \E a \in Addrs : closed(a)

SpecUpload == Init /\ [][NextUpload]_vars

(***************************************************************************)
(* Properties                                                              *)
(***************************************************************************)
Durable(b) == \E w \in disk : w[1] = b
InDeque(b) ==
    \E k \in 1..Len(slices) : \E j \in 1..Len(slices[k].blocks) :
        slices[k].blocks[j] = b
IsFetching(b) ==
    \E i \in 1..Len(futures) :
        futures[i].kind = "Fetching" /\ futures[i].blk = b
IsWriting(b) ==
    \E i \in 1..Len(futures) :
        futures[i].kind = "Writing" /\ futures[i].blk = b
SumInProgress ==
    SeqSum([k \in 1..Len(slices) |-> slices[k].in_progress])
Filled == pc \in {"engine", "commit", "committed", "exited"}
          \/ (pc = "aborted" /\ engine # "none")

\* C1: every write_block the engine issued, pending or durable, carries data
\* whose hash is the hash the index declares for that block; a response with
\* another hash never becomes a write.
C1_WritesAreVerified ==
    /\ \A i \in 1..Len(futures) :
          futures[i].kind = "Writing" =>
              hash_bytes(futures[i].data) = BlockHashOf(futures[i].blk)
    /\ \A w \in disk : hash_bytes(w[2]) = BlockHashOf(w[1])

\* a block is durable with bytes that are not the published ones but hash
\* alike, while a peer is registered as failed for some slice
C1_Witness ==
    /\ \E w \in disk : w[2] # Content(w[1])
    /\ \E k \in 1..Len(slices) : slices[k].failures # {}

\* C2: a slice's bit is in the mask only when every block of the slice is
\* durably written (no write of the slice is still pending).
C2_MaskOnlyAfterDurable ==
    \A b \in Blocks : SliceOf(b) \in mask => Durable(b) /\ ~IsWriting(b)

\* C3: the engine has returned done exactly when, after a poll, no slice and
\* no in-flight item remains, and then every block is durable; commit_image
\* is called only in such a state.
C3_DoneIffEmpty ==
    /\ engine = "done" <=>
          /\ last_poll.result \notin {"none", "exit"}
          /\ slices = << >>
          /\ futures = << >>
    /\ engine = "done" => \A b \in Blocks : Durable(b)
    /\ (\E c \in 1..Len(calls) : calls[c] = "commit_image") =>
          /\ engine = "done"
          /\ slices = << >>
          /\ futures = << >>

\* the engine is done after a request had failed
C3_Witness == engine = "done" /\ faults > 0

\* C4: the in_progress counters of the slices never add up to more than
\* CONCURRENCY.
C4_InProgressAtMostConcurrency == SumInProgress <= CONCURRENCY

\* C5: never more than CONCURRENCY + 1 items in flight, and no poll issues a
\* request in a pass that began with CONCURRENCY or more items in flight.
C5_InFlightBound ==
    /\ Len(futures) <= CONCURRENCY + 1
    /\ ~last_poll.beyond

\* CONCURRENCY + 1 items are in flight
C5_Witness == Len(futures) = CONCURRENCY + 1

\* C6: the mask only grows, and a bit is set only in the step that prunes
\* its slice.
C6_MaskMonotone ==
    [][ /\ mask \subseteq mask'
        /\ \A i \in mask' \ mask :
              /\ \E k \in 1..Len(slices) : slices[k].index = i
              /\ ~\E k \in 1..Len(slices') : slices'[k].index = i ]_vars

\* a bit is set while another slice is still tracked
C6_Witness == mask # {} /\ slices # << >>

\* C7: each block is in exactly one of: a deque, in flight as a request
\* counted by in_progress, durably written.
C7_BlockInOnePlace ==
    Filled =>
        /\ \A b \in Blocks :
              Cardinality({ x \in {"deque", "fetching", "durable"} :
                  \/ x = "deque" /\ InDeque(b)
                  \/ x = "fetching" /\ IsFetching(b)
                  \/ x = "durable" /\ Durable(b) }) = 1
        /\ SumInProgress =
              Cardinality({ b \in Blocks : IsFetching(b) })

\* C8: a poll at or after the deadline issues no request, and unless it
\* returns at the retry gate, it returns failed when a slice or an item is
\* left after polling and pruning.
C8_DeadlineFails ==
    (last_poll.result # "none" /\ now >= deadline) =>
        /\ ~last_poll.issued
        /\ ( /\ ~last_poll.gated
             /\ last_poll.result # "exit"
             /\ slices # << >> \/ futures # << >> )
           => (last_poll.result = "Err" /\ engine = "failed")

\* the engine failed at the deadline in the pass that verified a block
C8_Witness ==
    /\ engine = "failed"
    /\ now >= deadline
    /\ last_okay = now
    /\ \E i \in 1..Len(futures) : futures[i].kind = "Writing"

ReasonOf(stage) ==
    CASE stage = "index" -> "cant_fetch_index"
      [] stage = "staging" -> "cant_create_directory"
      [] stage = "hardlink" -> "internal_error_when_hardlinking"
      [] stage = "engine" -> "cluster_abort_no_file_source"
      [] stage = "commit" -> "commit_error"
      [] OTHER -> "none"

CallOf(stage) ==
    CASE stage = "index" -> "images.get"
      [] stage = "staging" -> "start_image"
      [] stage = "hardlink" -> "files_to_hardlink"
      [] stage = "engine" -> "FetchBlocks"
      [] stage = "commit" -> "commit_image"
      [] OTHER -> "none"

\* C9: the step that aborts the driver at a stage calls dir_aborted, sends
\* the abort reason of that stage and starts no later stage.
C9_AbortReasons ==
    [][ (pc # "aborted" /\ pc' = "aborted") =>
          /\ meta' = Append(meta, "dir_aborted")
          /\ remote' = Append(remote, [type |-> "AbortedImage",
                                       reason |-> ReasonOf(pc)])
          /\ calls' = calls
          /\ calls # << >> /\ calls[Len(calls)] = CallOf(pc) ]_vars

\* the driver aborted because the commit failed
C9_Witness ==
    /\ pc = "aborted"
    /\ remote = << [type |-> "AbortedImage", reason |-> "commit_error"] >>

\* C10: after AlreadyExists the driver has called dir_committed and sent
\* received_image, and nothing else: no slices, no engine, no request, no
\* commit_image, no dir_aborted.
C10_AlreadyExists ==
    pc = "exists" =>
        /\ meta = << "dir_committed" >>
        /\ remote = << [type |-> "ReceivedImage"] >>
        /\ slices = << >>
        /\ futures = << >>
        /\ engine = "none"
        /\ requested = {}
        /\ calls = << "images.get", "start_image" >>

C10_Witness == pc = "exists"

Terminal == pc \in {"committed", "exists", "aborted"}

\* C11: once the driver has reached a terminal outcome (committed, already
\* exists, aborted), its Downloading is no longer in the in-progress set.
C11_RemovedAtTerminal == Terminal => TheDownloading \notin in_progress

\* C12: after an abort the staging directory that start_image created is
\* gone: it exists only while the driver is between start_image and commit.
C12_StagingRemovedOnAbort == pc = "aborted" => staging # "temporary"

\* C18: the poll that verifies a block delivered by peer p, while p is
\* registered as failed for some slice, leaves p in no slice's failures.
C18_FailuresResetOnSuccess ==
    [][ \A i \in 1..Len(futures) :
          ( /\ futures[i].kind = "Fetching"
            /\ futures[i].f.st = "Ready"
            /\ Verified(futures[i].f.data, futures[i].blk)
            /\ \E k \in 1..Len(slices) :
                  futures[i].addr \in slices[k].failures
            /\ ~IsWriting(futures[i].blk)
            /\ IsWriting(futures[i].blk)' )
          => \A k \in 1..Len(slices') :
                futures[i].addr \notin slices'[k].failures ]_vars

\* a Fetching item whose request failed or was answered with bytes of
\* another hash
Failing(i) ==
    /\ futures[i].kind = "Fetching"
    /\ \/ futures[i].f.st = "Err"
       \/ /\ futures[i].f.st = "Ready"
          /\ hash_bytes(futures[i].f.data) # BlockHashOf(futures[i].blk)

\* C19: polling a Fetching item that ended in a transport error or a hash
\* mismatch drops the item with no write, leaves last_okay alone, and changes
\* only the item's slice: in_progress one less, the block back in the deque,
\* the peer added to the failures; every other slice is as before.
C19_FailureEffects ==
    \A i \in 1..Len(futures) :
        Failing(i) =>
            LET it == futures[i]
                r  == FetchBlock_poll(it, Engine(now))
            IN /\ r.out = "Err"
               /\ r.e.futures = futures
               /\ r.e.last_okay = last_okay
               /\ \E k \in 1..Len(slices) : slices[k].index = it.slice
               /\ Len(r.e.slices) = Len(slices)
               /\ \A k \in 1..Len(slices) :
                     r.e.slices[k] =
                        IF slices[k].index = it.slice
                        THEN [index |-> slices[k].index,
                              blocks |-> Append(slices[k].blocks, it.blk),
                              in_progress |-> slices[k].in_progress - 1,
                              failures |-> slices[k].failures \cup {it.addr}]
                        ELSE slices[k]

\* a failed item was polled: its block is back in the deque of its slice,
\* the peer is in that slice's failures only, and a request of another slice
\* is in flight to the same peer
C19_Witness ==
    /\ last_poll.polled
    /\ \E k \in 1..Len(slices) :
          /\ slices[k].failures # {}
          /\ slices[k].blocks # << >>
          /\ \E j \in 1..Len(slices) : slices[j].failures = {}
          /\ \E i \in 1..Len(futures) :
                /\ futures[i].kind = "Fetching"
                /\ futures[i].slice # slices[k].index
                /\ futures[i].addr \in slices[k].failures

\* C20: a pass that finds no peer for a slice leaves that slice's deque as
\* it was: the same blocks in the same order.
C20_NoPeerKeepsOrder ==
    [][ ( /\ pc = "engine"
          /\ futures = << >>
          /\ Len(slices') = Len(slices) )
        => \A k \in 1..Len(slices) :
              conns \subseteq slices[k].failures
                 => slices'[k].blocks = slices[k].blocks ]_vars

\* C13: no second driver for a (P, I) that is being tracked: start() has
\* spawned at most one index fetch for it.
C13_OneDriver == spawned <= 1

\* C14: the completion signal is sent at most once; it has been sent exactly
\* when the sender is gone; a Tracker callback that leaves ips_needed empty
\* leaves the signal sent, once; a callback that arrives after the signal
\* was sent sends nothing.
C14_SignalOnce ==
    /\ sent <= 1
    /\ done <=> sent = 0
    /\ (last_cb.kind # "none" /\ ips_needed = {}) => sent = 1

\* a ReceivedImage was the last step, it arrived after the signal had been
\* sent and found ips_needed empty
C14_Witness ==
    /\ last_cb = [kind |-> "notification", late |-> TRUE]
    /\ ips_needed = {}
    /\ sent = 1

\* C15: when do_upload reports success, a ReceivedImage was delivered on a
\* connection of every cluster entry-point.
C15_SuccessMeansConfirmed == upload_result = "true" => confirmed = Clusters

AcceptedClean(a) == got[a] = "accepted" /\ seen[a] = << {} >>
ContributesFalse(a) ==
    \/ got[a] \in {"rejected", "connect_failed", "request_failed"}
    \/ seen[a] # << >> /\ seen[a][1] # {}

\* C16: the result of do_upload is success exactly when every entry-point
\* has an address that was accepted and then observed the completion signal
\* with hosts_errored empty; a rejected address, one whose connection or
\* request failed and one that observed completion with hosts_errored
\* non-empty have the value false.
C16_ResultRule ==
    /\ upload_result # "none" =>
          ( upload_result = "true" <=>
               \A c \in Clusters : \E a \in AddrsOf(c) : AcceptedClean(a) )
    /\ \A a \in Addrs : ContributesFalse(a) => addr_pc[a] = "false"
    /\ \A a \in Addrs : AcceptedClean(a) => addr_pc[a] = "true"

\* the upload succeeded although an address of some entry-point was rejected
C16_Witness ==
    /\ upload_result = "true"
    /\ \E a \in Addrs : got[a] = "rejected"

\* C17: a connection that closes before the completion signal was sent has
\* its address removed from ips_needed and added to hosts_errored, and the
\* signal is sent if ips_needed is then empty; one that closes afterwards
\* leaves ips_needed, hosts_errored and hosts_done as they are.
C17_ClosedEffects ==
    [][ \A a \in Addrs :
          (cli[a] = "open" /\ cli'[a] = "closed") =>
             IF sent = 0
             THEN /\ ips_needed' = ips_needed \ {a}
                  /\ hosts_errored' = hosts_errored \cup {a}
                  /\ hosts_done' = hosts_done
                  /\ sent' = IF ips_needed' = {} THEN 1 ELSE 0
             ELSE UNCHANGED << ips_needed, hosts_errored, hosts_done,
                               sent >> ]_vars

\* a connection closed after the signal had been sent by an earlier close,
\* while an address was still needed
C17_Witness ==
    /\ last_cb = [kind |-> "closed", late |-> TRUE]
    /\ hosts_errored # {}
    /\ ips_needed # {}

\* C21: a pass that schedules nothing with nothing in flight, at an instant
\* RETRY_CLUSTER_FAILURE or more after last_okay (equality included), with
\* check_stalled true, returns failed.
C21_StallAtThreshold ==
    [][ ( /\ pc = "engine"
          /\ conns' = conns
          /\ futures' = << >>
          /\ last_poll'.stalled
          /\ now' - last_okay' >= RETRY_CLUSTER_FAILURE
          /\ check_stalled )
        => last_poll'.result = "Err" ]_vars

\* C22: while less than RETRY_CLUSTER_FAILURE has elapsed since last_okay, a
\* stalled pass does not consult check_stalled, arms the retry timer for
\* RETRY_INTERVAL and returns not-ready; the engine has not failed before
\* the deadline unless check_stalled was consulted, at least
\* RETRY_CLUSTER_FAILURE after last_okay.
C22_NoEarlyStallFailure ==
    /\ (last_poll.stalled /\ now - last_okay < RETRY_CLUSTER_FAILURE) =>
          /\ ~last_poll.checked
          /\ last_poll.result = "NotReady"
          /\ engine = "running"
          /\ retry_timeout = << now + RETRY_INTERVAL >>
    /\ (engine = "failed" /\ now < deadline) =>
          /\ last_poll.checked
          /\ now - last_okay >= RETRY_CLUSTER_FAILURE

\* every peer is gone and the engine, polled less than RETRY_CLUSTER_FAILURE
\* after a block was verified, waits on its retry timer
C22_Witness ==
    /\ last_poll.stalled
    /\ conns = {}
    /\ last_okay > 0
    /\ now - last_okay < RETRY_CLUSTER_FAILURE
    /\ retry_timeout # NoTimeout

\* C23 as stated: every poll that ends in a pass which went through the
\* done, deadline and backpressure checks and scheduled nothing has called
\* notify_stalled and has either failed or armed the retry timer, whatever
\* is in flight.
C23_IdlePassStalls ==
    last_poll.idle =>
        /\ last_poll.stalled
        /\ \/ last_poll.result = "Err"
           \/ /\ last_poll.result = "NotReady"
              /\ retry_timeout = << now + RETRY_INTERVAL >>

\* C23, amended: such a pass calls notify_stalled and fails or arms the
\* retry timer when nothing is in flight; when a request or a write is in
\* flight it returns not-ready without notify_stalled and without a timer.
C23_IdlePassStallsWhenEmpty ==
    last_poll.idle =>
        IF futures = << >>
        THEN /\ last_poll.stalled
             /\ \/ last_poll.result = "Err"
                \/ /\ last_poll.result = "NotReady"
                   /\ retry_timeout = << now + RETRY_INTERVAL >>
        ELSE /\ ~last_poll.stalled
             /\ last_poll.result = "NotReady"
             /\ retry_timeout = NoTimeout

\* a pass scheduled nothing for a queued block while a write was in flight
C23_Witness ==
    /\ last_poll.idle
    /\ \E i \in 1..Len(futures) : futures[i].kind = "Writing"
    /\ \E k \in 1..Len(slices) : slices[k].blocks # << >>

\* the record of a poll that returned at the retry gate
GatedPoll == [NoPoll EXCEPT !.result = "NotReady", !.gated = TRUE]

\* C24: a poll while the retry timer is armed and has not fired returns
\* not-ready and changes nothing of the engine, the mask, the broadcasts or
\* the disk, and polls no item, no deadline and no registry; a poll once
\* the timer has fired clears it and runs a full pass, up to the deadline
\* check at least.
C24_GatedPollChangesNothing ==
    [][ (pc = "engine" /\ retry_timeout # NoTimeout) =>
          IF now' < retry_timeout[1]
          THEN /\ UNCHANGED << slices, mask, futures, retry_timeout,
                               last_okay, deadline, progress, requested,
                               engine, pc, disk, calls, meta, remote >>
               /\ last_poll' # last_poll => last_poll' = GatedPoll
          ELSE /\ ~last_poll'.gated
               /\ last_poll'.deadline
               /\ retry_timeout' \in { NoTimeout,
                                       << now' + RETRY_INTERVAL >> } ]_vars

\* the engine was turned away at the retry gate while a peer that could
\* serve the queued blocks was connected
C24_Witness ==
    /\ last_poll = GatedPoll
    /\ conns # {}
    /\ \E k \in 1..Len(slices) :
          /\ slices[k].blocks # << >>
          /\ \E p \in conns : p \notin slices[k].failures

RequestsOf(idx) ==
    { i \in 1..Len(futures) :
        futures[i].kind = "Fetching" /\ futures[i].slice = idx }

\* C25: between polls every slice's in_progress is the number of Fetching
\* items of that slice in the queue, never negative, and every Fetching item
\* belongs to a slice that is still tracked (a slice with an outstanding
\* request is not pruned).
C25_InProgressCountsRequests ==
    /\ \A k \in 1..Len(slices) :
          /\ slices[k].in_progress = Cardinality(RequestsOf(slices[k].index))
          /\ slices[k].in_progress >= 0
    /\ \A i \in 1..Len(futures) :
          futures[i].kind = "Fetching" =>
              \E k \in 1..Len(slices) : slices[k].index = futures[i].slice

\* a slice has two requests outstanding while another slice, which had a
\* request fail, has one, and a verified block is being written
C25_Witness ==
    /\ \E k \in 1..Len(slices) : slices[k].in_progress = 2
    /\ \E k \in 1..Len(slices) :
          slices[k].in_progress = 1 /\ slices[k].failures # {}
    /\ faults > 0

\* C27: a driver makes at most one terminal report, and exactly one once it
\* has ended: dir_committed with received_image, only after commit_image
\* succeeded or start_image returned AlreadyExists, or dir_aborted with one
\* aborted_image; never both, never two.
C27_OneTerminalReport ==
    /\ Len(meta) <= 1
    /\ Len(remote) <= 1
    /\ Terminal <=> Len(meta) = 1
    /\ Terminal <=> Len(remote) = 1
    /\ pc = "aborted" =>
          /\ meta = << "dir_aborted" >>
          /\ remote[1].type = "AbortedImage"
    /\ pc \in {"committed", "exists"} =>
          /\ meta = << "dir_committed" >>
          /\ remote = << [type |-> "ReceivedImage"] >>
    /\ pc = "committed" =>
          /\ staging = "committed"
          /\ calls[Len(calls)] = "commit_image"
    /\ pc = "exists" => calls[Len(calls)] = "start_image"

\* the image was committed after a request had failed
C27_Witness ==
    /\ pc = "committed"
    /\ meta = << "dir_committed" >>
    /\ faults > 0

\* C30: the retry timer is armed only while nothing is in flight, and a poll
\* turned away at the retry gate leaves no item unpolled.
C30_TimerOnlyWhenIdle ==
    /\ retry_timeout # NoTimeout => futures = << >>
    /\ last_poll.gated => futures = << >>

\* the retry timer is armed after a block was written and a request failed
C30_Witness ==
    /\ retry_timeout # NoTimeout
    /\ disk # {}
    /\ faults > 0

\* C26: a step that is the ReceivedImage notification of machine m on the
\* connection to a records m in hosts_done, removes a from ips_needed if
\* the notification is not forwarded and leaves ips_needed alone if it is,
\* and sends the completion signal only if ips_needed is then empty.
C26_NotificationEffects ==
    [][ \A a \in Addrs, m \in Machines, forwarded \in BOOLEAN :
          notification(a, m, forwarded) =>
             /\ hosts_done' = hosts_done \cup {m}
             /\ forwarded => ips_needed' = ips_needed
             /\ ~forwarded => ips_needed' = ips_needed \ {a}
             /\ sent' # sent => (ips_needed' = {} /\ sent' = sent + 1)
             /\ ips_needed' # {} => (sent' = sent /\ done' = done)
      ]_vars

\* a notification was the last step and did not send the signal: with two
\* machines recorded, an address is still needed although its connection is
\* open
C26_Witness ==
    /\ last_cb = [kind |-> "notification", late |-> FALSE]
    /\ sent = 0
    /\ hosts_done = Machines
    /\ \E a \in ips_needed : cli[a] = "open"

\* C29: when ips_needed is empty while an accepted address waits for the
\* completion signal, the signal has been sent.
C29_EmptyMeansFired ==
    (ips_needed = {} /\ \E a \in Addrs : addr_pc[a] = "waiting") => sent = 1

====
